---- MODULE Spec2Model ----
(***************************************************************************)
(* Land-cover-change QA matrices (LCC_matrices.py, QA_LCC.py).             *)
(*                                                                         *)
(* Numbers.  Acreages are floating point in the program.  Here they are    *)
(* exact: an unrounded acreage Count / 4046.86 is kept as the numerator    *)
(* Count * 100 over the denominator AcresDen = 404686; a matrix value,     *)
(* which the program rounds to 4 decimals, is kept as an integer number of *)
(* 1/Scale4 acres.  Floating-point rounding error is not modelled.         *)
(* A cell of a table is a record [nan, v]: pandas' NaN is nan = TRUE.      *)
(***************************************************************************)
EXTENDS Integers, Sequences, FiniteSets, TLC

\* ------------------------------------------------------------- bounds
\* raster values 1..NumValues are listed in the lookup table; NumValues + 1
\* is a raster value the lookup table does not know
NumValues == 2
\* largest Count (square metres) of a row of a raster attribute table
MaxCount == 1

\* ---------------------------------------------------- program constants
\* Count / 4046.86 = Count * 100 / 404686
AcresDen == 404686
\* .round(4): matrix values are multiples of 1/10000 acre
Scale4 == 10000

\* ------------------------------------------------------------ universe
NaN == "NaN"
Names == {"Forest", "Water"}
Abbrs == {"F", "W"}
Versions == <<"2024ed", "2022ed">>

\* ------------------------------------------------------------- helpers
Range(s) == {s[i] : i \in DOMAIN s}

HasDuplicates(s) == \E i, j \in DOMAIN s : i /= j /\ s[i] = s[j]

\* list.index(x): the first position of x (the caller checks x is in s)
IndexOf(s, x) == CHOOSE i \in DOMAIN s : s[i] = x /\ \A j \in 1..(i - 1) : s[j] /= x

RECURSIVE UniqueSeq(_)
\* Series.unique(): the distinct values in order of first appearance
UniqueSeq(s) ==
    IF s = <<>> THEN <<>>
    ELSE LET front == UniqueSeq(SubSeq(s, 1, Len(s) - 1))
             last == s[Len(s)]
         IN IF last \in Range(front) THEN front ELSE Append(front, last)

RECURSIVE SumOver(_, _)
\* the sum of f[x] over the finite set S
SumOver(f, S) ==
    IF S = {} THEN 0
    ELSE LET x == CHOOSE y \in S : TRUE IN f[x] + SumOver(f, S \ {x})

\* numpy's round of the exact quotient n / d (n >= 0, d > 0): to nearest, ties to even
RoundHalfEven(n, d) ==
    LET q == n \div d
        r == n % d
    IN IF 2 * r < d THEN q
       ELSE IF 2 * r > d THEN q + 1
       ELSE IF q % 2 = 0 THEN q ELSE q + 1

\* Python's order of the labels, for the sorted union of two differing indexes
LabelOrder == <<"Decrease", "F", "Forest", "Increase", "Net Change", "W", "Water">>

RECURSIVE SortLabels(_)
SortLabels(S) ==
    IF S = {} THEN <<>>
    ELSE LET least == CHOOSE x \in S :
                        \A y \in S : IndexOf(LabelOrder, x) <= IndexOf(LabelOrder, y)
         IN <<least>> \o SortLabels(S \ {least})

Num(v) == [nan |-> FALSE, v |-> v]
NaNv == [nan |-> TRUE, v |-> 0]

\* DataFrame.fillna(0) on one value
FillNa(x) == IF x.nan THEN Num(0) ELSE x

\* float subtraction: NaN propagates
Sub(a, b) == IF a.nan \/ b.nan THEN NaNv ELSE Num(a.v - b.v)

\* ------------------------------------------------ createMatrices: the table
\* df = RAT merged with the lookup table (how='left'): a raster value the lookup
\* table lacks gets NaN class names; Acres = Count / 4046.86
MergeLookup(rat, lookup) ==
    [val \in DOMAIN rat |->
        [early |-> IF val \in DOMAIN lookup THEN lookup[val].early ELSE NaN,
         late  |-> IF val \in DOMAIN lookup THEN lookup[val].late ELSE NaN,
         Count |-> rat[val],
         Acres |-> rat[val] * 100]]

AbbrevKeys(abbrev) == {abbrev[i][1] : i \in DOMAIN abbrev}

\* Series.replace(dict) on one value: a key of the dict becomes its value, anything
\* else (NaN included) is left as it is
Replace(abbrev, x) ==
    IF x \in AbbrevKeys(abbrev)
    THEN abbrev[CHOOSE i \in DOMAIN abbrev : abbrev[i][1] = x][2]
    ELSE x

ReplaceNames(df, abbrev) ==
    [val \in DOMAIN df |->
        [df[val] EXCEPT !.early = Replace(abbrev, df[val].early),
                        !.late = Replace(abbrev, df[val].late)]]

\* list(lc_abbrev.values())
AbbrevValues(abbrev) == [i \in DOMAIN abbrev |-> abbrev[i][2]]

\* lcc_lookup['early'].unique().tolist()
LookupClasses(lookup) == UniqueSeq([i \in DOMAIN lookup |-> lookup[i].early])

\* the rows of df that pivot_table groups under (e, l)
RowsOf(df, e, l) == {val \in DOMAIN df : df[val].early = e /\ df[val].late = l}

\* pd.pivot_table(..., values='Acres') aggregates with its default, the mean, and
\* .round(4) rounds the result: the value of one (early, late) group, in 1/Scale4 acre
PivotAggregate(df, rows) ==
    Num(RoundHalfEven(SumOver([val \in rows |-> df[val].Acres], rows) * Scale4,
                      Cardinality(rows) * AcresDen))

\* pd.pivot_table(df, values='Acres', index=early, columns=late).round(4): rows with
\* a NaN key are dropped, a pair with no row is NaN
PivotTable(df) ==
    LET valid == {val \in DOMAIN df : df[val].early /= NaN /\ df[val].late /= NaN}
        idx == {df[val].early : val \in valid}
        cols == {df[val].late : val \in valid}
    IN [index |-> idx,
        columns |-> cols,
        cell |-> [p \in idx \X cols |->
                    IF RowsOf(df, p[1], p[2]) = {} THEN NaNv
                    ELSE PivotAggregate(df, RowsOf(df, p[1], p[2]))]]

\* matrix.loc[:, c] = 0 when c is no column yet
AddColumn(m, c) ==
    IF c \in m.columns THEN m
    ELSE [index |-> m.index,
          columns |-> m.columns \cup {c},
          cell |-> [p \in m.index \X (m.columns \cup {c}) |->
                      IF p[2] = c THEN Num(0) ELSE m.cell[p]]]

\* matrix.loc[c, :] = 0 when c is no row yet
AddRow(m, c) ==
    IF c \in m.index THEN m
    ELSE [index |-> m.index \cup {c},
          columns |-> m.columns,
          cell |-> [p \in (m.index \cup {c}) \X m.columns |->
                      IF p[1] = c THEN Num(0) ELSE m.cell[p]]]

\* mutant: the diagonal is left as the pivot table gave it
ZeroNoChangeSkipped(m, c) == m

\* matrix.loc[c, c] = 0
ZeroNoChange(m, c) == [m EXCEPT !.cell[<<c, c>>] = Num(0)]

RECURSIVE ValidateClasses(_, _)
\* for c in classes: add the missing column, the missing row, zero the diagonal
ValidateClasses(m, classes) ==
    IF classes = <<>> THEN m
    ELSE ValidateClasses(ZeroNoChange(AddRow(AddColumn(m, Head(classes)), Head(classes)),
                                      Head(classes)),
                         Tail(classes))

\* mutant: the classes in the order a pivot table has them, sorted, not the registry's
ReorderSorted(m, classes) ==
    [index |-> SortLabels(Range(classes)),
     columns |-> SortLabels(Range(classes)),
     cell |-> [p \in Range(classes) \X Range(classes) |->
                 FillNa(IF p[1] \in m.index /\ p[2] \in m.columns THEN m.cell[p] ELSE NaNv)]]

\* matrix.reindex(classes); matrix[classes]; matrix.fillna(0): rows and columns in
\* the order of classes, labels outside classes dropped (classes has no duplicate here)
Reorder(m, classes) ==
    [index |-> classes,
     columns |-> classes,
     cell |-> [p \in Range(classes) \X Range(classes) |->
                 FillNa(IF p[1] \in m.index /\ p[2] \in m.columns THEN m.cell[p] ELSE NaNv)]]

\* matrix[classes].sum(axis=1) at row r
RowSum(m, classes, r) == SumOver([c \in Range(classes) |-> m.cell[<<r, c>>].v], Range(classes))

\* matrix[classes].sum(axis=0) at column c
ColSum(m, classes, c) == SumOver([r \in Range(classes) |-> m.cell[<<r, c>>].v], Range(classes))

\* sum(matrix['Decrease'][0:len(classes)])
TotalChange(m, classes) ==
    SumOver([r \in Range(classes) |-> RowSum(m, classes, r)], Range(classes))

\* the Decrease column, the Increase, Decrease and Net Change rows.  The Increase row
\* is a Series over the classes, so its Decrease entry is NaN until line 211 sets it;
\* the Decrease row is the Decrease column as a list, laid over the columns by
\* position: its last entry is the (then NaN) Decrease entry of the Increase row
AddTotals(m, classes) ==
    LET rows == m.index \o <<"Increase", "Decrease", "Net Change">>
        cols == m.columns \o <<"Decrease">>
        decreaseCol == [r \in Range(classes) |-> Num(RowSum(m, classes, r))]
        increaseRow == [c \in Range(cols) |->
                          IF c = "Decrease" THEN NaNv ELSE Num(ColSum(m, classes, c))]
        decreaseList == [k \in 1..(Len(classes) + 1) |->
                           IF k <= Len(classes) THEN decreaseCol[m.index[k]]
                           ELSE increaseRow["Decrease"]]
        decreaseRow == [c \in Range(cols) |-> decreaseList[IndexOf(cols, c)]]
        netChange == [c \in Range(cols) |-> Sub(increaseRow[c], decreaseRow[c])]
    IN [index |-> rows,
        columns |-> cols,
        cell |-> [p \in Range(rows) \X Range(cols) |->
                    IF p[1] = "Increase" /\ p[2] = "Decrease" THEN Num(TotalChange(m, classes))
                    ELSE IF p[1] = "Increase" THEN increaseRow[p[2]]
                    ELSE IF p[1] = "Decrease" THEN decreaseRow[p[2]]
                    ELSE IF p[1] = "Net Change" THEN netChange[p[2]]
                    ELSE IF p[2] = "Decrease" THEN decreaseCol[p[1]]
                    ELSE m.cell[p]]]

\* the lc_abbrev argument: None, or a dict as the sequence of its <<name, abbreviation>>
None == [given |-> FALSE, table |-> <<>>]
Dict(t) == [given |-> TRUE, table |-> t]

\* the class registry of one call: the abbreviation table's values when the table is
\* given, else the lookup table's distinct early names
ClassesOf(lookup, lc_abbrev) ==
    IF lc_abbrev.given THEN AbbrevValues(lc_abbrev.table) ELSE LookupClasses(lookup)

\* df with the names replaced by their abbreviations when the table is given
Abbreviate(df, lc_abbrev) ==
    IF lc_abbrev.given THEN ReplaceNames(df, lc_abbrev.table) ELSE df

\* the change matrix of one period, lines 185-211
BuildMatrix(df, classes) ==
    AddTotals(Reorder(ValidateClasses(PivotTable(df), classes), classes), classes)

\* ------------------------------------------------------------ totals_helper
\* mutant: the late name of a no-change row stays NaN
CopyNoChangeSkipped(df) == df

\* df.loc[df[late].isna(), late] = df[early]
CopyNoChange(df) ==
    [val \in DOMAIN df |->
        IF df[val].late = NaN THEN [df[val] EXCEPT !.late = df[val].early] ELSE df[val]]

\* groupby(key).sum() of Acres: NaN keys are dropped
EarlyKeys(df) == {df[val].early : val \in DOMAIN df} \ {NaN}
LateKeys(df) == {df[val].late : val \in DOMAIN df} \ {NaN}
EarlyTotal(df, c) ==
    LET rows == {val \in DOMAIN df : df[val].early = c}
    IN SumOver([val \in rows |-> df[val].Acres], rows)
LateTotal(df, c) ==
    LET rows == {val \in DOMAIN df : df[val].late = c}
    IN SumOver([val \in rows |-> df[val].Acres], rows)

\* the totals table of a period, keyed by LandCover; early_tot merged with late_tot
\* (how='outer') and .fillna(0.0).  Values are numerators over AcresDen
totals_helper(lcc_df) ==
    LET df == CopyNoChange(lcc_df)
    IN [c \in EarlyKeys(df) \cup LateKeys(df) |->
          [early |-> IF c \in EarlyKeys(df) THEN EarlyTotal(df, c) ELSE 0,
           late |-> IF c \in LateKeys(df) THEN LateTotal(df, c) ELSE 0]]

\* ------------------------------------------------------------------ addStyle
\* a sheet of the workbook: the table as to_excel wrote it (row 1 the header, column 1
\* the index, so the cell of index[i], columns[j] is at row i + 1, column j + 1) and
\* the fill of every cell ("none": no fill)
NoFill == "none"
Sheet(m) ==
    [index |-> m.index, columns |-> m.columns, cell |-> m.cell,
     fill |-> [p \in Range(m.index) \X Range(m.columns) |-> NoFill]]

\* classes.index(t[0]) raises ValueError when a transition names no class
StyleRaises(classes, colors) ==
    \E k \in DOMAIN colors : \E i \in DOMAIN colors[k].transitions :
        \/ colors[k].transitions[i][1] \notin Range(classes)
        \/ colors[k].transitions[i][2] \notin Range(classes)

\* xy of one tier: x, y = classes.index(t[0]) + 2, classes.index(t[1]) + 2
\* (IndexOf counts from 1, list.index from 0)
TierCells(classes, tier) ==
    {<<(IndexOf(classes, tier.transitions[i][1]) - 1) + 2,
       (IndexOf(classes, tier.transitions[i][2]) - 1) + 2>> : i \in DOMAIN tier.transitions}

\* mutant: a cell that has a fill keeps it
FillTierKeepsFirst(sheet, classes, tier) ==
    [sheet EXCEPT !.fill =
        [p \in DOMAIN sheet.fill |->
            IF /\ <<IndexOf(sheet.index, p[1]) + 1, IndexOf(sheet.columns, p[2]) + 1>>
                      \in TierCells(classes, tier)
               /\ sheet.cell[p].v > 0
               /\ sheet.fill[p] = NoFill
            THEN tier.hex
            ELSE sheet.fill[p]]]

\* mutant: cell.value >= 0
FillTierFromZero(sheet, classes, tier) ==
    [sheet EXCEPT !.fill =
        [p \in DOMAIN sheet.fill |->
            IF /\ <<IndexOf(sheet.index, p[1]) + 1, IndexOf(sheet.columns, p[2]) + 1>>
                      \in TierCells(classes, tier)
               /\ sheet.cell[p].v >= 0
            THEN tier.hex
            ELSE sheet.fill[p]]]

\* one tier's pass over the sheet: a cell in xy with cell.value > 0 gets the tier's fill
FillTier(sheet, classes, tier) ==
    [sheet EXCEPT !.fill =
        [p \in DOMAIN sheet.fill |->
            IF /\ <<IndexOf(sheet.index, p[1]) + 1, IndexOf(sheet.columns, p[2]) + 1>>
                      \in TierCells(classes, tier)
               /\ sheet.cell[p].v > 0
            THEN tier.hex
            ELSE sheet.fill[p]]]

RECURSIVE FillTiers(_, _, _)
\* for color in colors: the tiers in the order of the dict
FillTiers(sheet, classes, colors) ==
    IF colors = <<>> THEN sheet
    ELSE FillTiers(FillTier(sheet, classes, Head(colors)), classes, Tail(colors))

\* addStyle(path, [sheet], classes, colors, 'matrix') on one sheet
addStyle(sheet, classes, colors) == FillTiers(sheet, classes, colors)

\* ------------------------------------------------------- difference_matrices
\* a value of the difference table: a fraction n/d in lowest terms (d > 0), NaN, or
\* a signed infinity
RECURSIVE Gcd(_, _)
Gcd(a, b) == IF b = 0 THEN a ELSE Gcd(b, a % b)
Abs(x) == IF x < 0 THEN -x ELSE x
Frac(n, d) ==
    LET g == Gcd(Abs(n), Abs(d))
    IN [kind |-> "num", n |-> (IF d < 0 THEN -n ELSE n) \div g, d |-> Abs(d) \div g]
NaNq == [kind |-> "nan", n |-> 0, d |-> 1]
Infq == [kind |-> "inf", n |-> 0, d |-> 1]
NegInfq == [kind |-> "-inf", n |-> 0, d |-> 1]

\* float division x / t, as numpy does it: no exception, x / 0 is NaN when x is 0 and
\* a signed infinity otherwise
Divide(x, t) ==
    IF x.nan \/ t.nan THEN NaNq
    ELSE IF t.v /= 0 THEN Frac(x.v, t.v)
    ELSE IF x.v = 0 THEN NaNq
    ELSE IF x.v > 0 THEN Infq ELSE NegInfq

\* the labels of df1 - df2 on one axis: the axis itself when both frames have the same,
\* else the sorted union (an outer join)
AlignLabels(a, b) == IF a = b THEN a ELSE SortLabels(Range(a) \cup Range(b))

\* df1 - df2: the operands are aligned on their labels, a label missing in either
\* gives NaN
Subtract(df1, df2) ==
    LET idx == AlignLabels(df1.index, df2.index)
        cols == AlignLabels(df1.columns, df2.columns)
    IN [index |-> idx,
        columns |-> cols,
        cell |-> [p \in Range(idx) \X Range(cols) |->
                    IF p \in DOMAIN df1.cell /\ p \in DOMAIN df2.cell
                    THEN Sub(df1.cell[p], df2.cell[p])
                    ELSE NaNv]]

\* mutant: the total change of the older version
TotChangeOfOlder(df1, df2) == df2.cell[<<"Increase", "Decrease">>]

\* tot_change = df1.loc['Increase', 'Decrease'], read before the subtraction
TotChange(df1, df2) == df1.cell[<<"Increase", "Decrease">>]

\* (df1 - df2) / tot_change
DifferenceTable(df1, df2) ==
    LET d == Subtract(df1, df2)
        tot_change == TotChange(df1, df2)
    IN [index |-> d.index,
        columns |-> d.columns,
        cell |-> [p \in DOMAIN d.cell |-> Divide(d.cell[p], tot_change)]]

\* the sheet of the difference table: f"{year1}-{year2}_{versions[0]}-{versions[1]}"
DiffSheet == "difference"

\* --------------------------------------------------------------------- state
VARIABLES
    lcc_lookup,   \* the lookup table: raster value -> [early, late]
    colors,       \* config['colors']: a sequence of [hex, transitions]
    workbook,     \* the workbook at qaqc_path: sheet name -> sheet
    total_df,     \* what the last createMatrices returned: LandCover -> [early, late]
    call,         \* the last call and its arguments
    raised,       \* the exception the last call raised, "none" when it returned
    cfs,          \* the driver's regions: len(cfs)
    cfs_i,        \* the driver's loop index i into cfs
    pc,           \* the driver's position in the body of its loop
    total_df24    \* the driver's total_df24

vars == <<lcc_lookup, colors, workbook, total_df, call, raised, cfs, cfs_i, pc, total_df24>>
\* the variables of the driver's loop
driver == <<cfs, cfs_i, pc, total_df24>>

NoCall == [fn |-> "none", version |-> "", rat |-> <<>>, lc_abbrev |-> None]
NoWorkbook == [n \in {} |-> 0]
\* the functions called on their own, not from the driver's loop
NoDriver == cfs = 0 /\ cfs_i = 0 /\ pc = "none" /\ total_df24 = NoWorkbook

\* ------------------------------------------------------------------- inputs
Lookups == [1..NumValues -> [early : Names, late : Names \cup {NaN}]]

\* dicts name -> abbreviation: the keys are distinct, two names may share an abbreviation
AbbrevTables ==
    {t \in UNION {[1..n -> Names \X Abbrs] : n \in 1..Cardinality(Names)} :
        \A i, j \in DOMAIN t : i /= j => t[i][1] /= t[j][1]}

AbbrevArgs == {None} \cup {Dict(t) : t \in AbbrevTables}

\* raster attribute tables: the raster values present in the raster (at least one),
\* each with its Count >= 1; NumValues + 1 is a value the lookup table does not list
Rats == UNION {[S -> 1..MaxCount] : S \in (SUBSET (1..(NumValues + 1))) \ {{}}}

\* ------------------------------------------------------------------ actions
\* createMatrices for one period, on a workbook that has no sheet of this version yet.
\* An exception ends the run: nothing is called after it.
createMatrices(version, rat, lc_abbrev) ==
    LET df == MergeLookup(rat, lcc_lookup)
        totals == totals_helper(df)
        classes == ClassesOf(lcc_lookup, lc_abbrev)
        matrix == BuildMatrix(Abbreviate(df, lc_abbrev), classes)
    IN /\ raised = "none"
       /\ version \notin DOMAIN workbook
       /\ call' = [fn |-> "createMatrices", version |-> version, rat |-> rat,
                   lc_abbrev |-> lc_abbrev]
       /\ IF HasDuplicates(classes)
          THEN \* line 208: a Series with duplicate labels cannot be laid over the columns
               /\ raised' = "ValueError"
               /\ UNCHANGED <<workbook, total_df>>
          ELSE IF StyleRaises(classes, colors)
          THEN \* the sheet is written, addStyle raises before it saves any fill
               /\ raised' = "ValueError"
               /\ workbook' = (version :> Sheet(matrix)) @@ workbook
               /\ UNCHANGED total_df
          ELSE /\ raised' = "none"
               /\ workbook' = (version :> addStyle(Sheet(matrix), classes, colors)) @@ workbook
               /\ total_df' = totals
       /\ UNCHANGED <<lcc_lookup, colors>>

\* difference_matrices(qaqc_path, year1, year2, versions) with two versions, on a
\* workbook that has no difference sheet yet; read_excel raises ValueError for a
\* sheet the workbook lacks.  addStyle with sheet_type 'difference' fills nothing.
difference_matrices(versions) ==
    /\ raised = "none"
    /\ DiffSheet \notin DOMAIN workbook
    /\ call' = [fn |-> "difference_matrices", version |-> versions[1], rat |-> <<>>,
                lc_abbrev |-> None]
    /\ IF versions[1] \notin DOMAIN workbook \/ versions[2] \notin DOMAIN workbook
       THEN /\ raised' = "ValueError"
            /\ UNCHANGED workbook
       ELSE /\ raised' = "none"
            /\ workbook' =
                 (DiffSheet :> Sheet(DifferenceTable(workbook[versions[1]],
                                                     workbook[versions[2]]))) @@ workbook
    /\ UNCHANGED <<lcc_lookup, colors, total_df>>

\* the driver's next output_path: a workbook that does not exist yet
NewWorkbook ==
    /\ raised = "none"
    /\ workbook /= NoWorkbook
    /\ workbook' = NoWorkbook
    /\ total_df' = NoWorkbook
    /\ call' = NoCall
    /\ UNCHANGED <<lcc_lookup, colors, raised>>
    /\ UNCHANGED driver

\* ------------------------------------------------------------ specifications
\* a rule table that lists nothing
NoRules == <<>>

\* Spec: createMatrices over every lookup table, abbreviation table and raster
\* attribute table of the bounds, one version per workbook, nothing to style
Init ==
    /\ lcc_lookup \in Lookups
    /\ colors = NoRules
    /\ workbook = NoWorkbook
    /\ total_df = NoWorkbook
    /\ call = NoCall
    /\ raised = "none"
    /\ NoDriver

Next ==
    \/ /\ \E rat \in Rats, lc_abbrev \in AbbrevArgs :
             createMatrices(Versions[1], rat, lc_abbrev)
       /\ UNCHANGED driver
    \/ NewWorkbook

Spec == Init /\ [][Next]_vars

\* the lookup table "Forest to Water", "Water to Forest", "Forest to Water", ...
StdLookup ==
    [val \in 1..NumValues |->
        IF val % 2 = 1 THEN [early |-> "Forest", late |-> "Water"]
        ELSE [early |-> "Water", late |-> "Forest"]]
StdAbbrev == <<<<"Forest", "F">>, <<"Water", "W">>>>

\* rule tables: one or two tiers (the keys of a dict are distinct), each listing one
\* transition, named in full names or in abbreviations
Hexes == {"red", "yellow"}
StylePairs == (Names \X Names) \cup (Abbrs \X Abbrs)
Tiers == {[hex |-> h, transitions |-> <<t>>] : h \in Hexes, t \in StylePairs}
RuleTables ==
    {<<a>> : a \in Tiers} \cup {t \in {<<a, b>> : a \in Tiers, b \in Tiers} : t[1].hex /= t[2].hex}

\* SpecStyle: createMatrices and its addStyle over every rule table of the bounds
InitStyle ==
    /\ lcc_lookup = StdLookup
    /\ colors \in RuleTables
    /\ workbook = NoWorkbook
    /\ total_df = NoWorkbook
    /\ call = NoCall
    /\ raised = "none"
    /\ NoDriver

NextStyle ==
    \/ /\ \E rat \in Rats, lc_abbrev \in {None, Dict(StdAbbrev)} :
             createMatrices(Versions[1], rat, lc_abbrev)
       /\ UNCHANGED driver
    \/ NewWorkbook

SpecStyle == InitStyle /\ [][NextStyle]_vars

\* SpecDiff: the matrices of the two versions of one period, then their difference.
\* The class lists of the two calls may be the same, a reordering of each other,
\* one a part of the other, or disjoint.
DiffAbbrevs ==
    {None, Dict(StdAbbrev), Dict(<<<<"Water", "W">>, <<"Forest", "F">>>>),
     Dict(<<<<"Forest", "F">>>>)}
DiffRats == {rat \in Rats : DOMAIN rat \subseteq 1..NumValues}

InitDiff ==
    /\ lcc_lookup = StdLookup
    /\ colors = NoRules
    /\ workbook = NoWorkbook
    /\ total_df = NoWorkbook
    /\ call = NoCall
    /\ raised = "none"
    /\ NoDriver

NextDiff ==
    \/ /\ \E i \in DOMAIN Versions, rat \in DiffRats, lc_abbrev \in DiffAbbrevs :
             createMatrices(Versions[i], rat, lc_abbrev)
       /\ UNCHANGED driver
    \/ difference_matrices(Versions) /\ UNCHANGED driver
    \/ NewWorkbook

SpecDiff == InitDiff /\ [][NextDiff]_vars

\* ------------------------------------------------------------- the driver
\* the driver's loop over the regions cfs, QA_LCC.py lines 111-171.  One period per
\* region (T1-T2) and one raster attribute table per version; config['LC_abbrev']
\* is StdAbbrev
MaxRegions == 3

\* config['LC_abbrev'][lc]
AbbrevOf(abbrev, lc) == abbrev[CHOOSE k \in DOMAIN abbrev : abbrev[k][1] = lc][2]

\* a transition of the tier names something that is no key of config['LC_abbrev']:
\* line 128 raises KeyError
TierRaises(tier, abbrev) ==
    \E k \in DOMAIN tier.transitions :
        \/ tier.transitions[k][1] \notin AbbrevKeys(abbrev)
        \/ tier.transitions[k][2] \notin AbbrevKeys(abbrev)

\* lines 123-131 on one tier: every name of every transition replaced
NewTrans(tier, abbrev) ==
    [tier EXCEPT !.transitions =
        [k \in DOMAIN tier.transitions |->
            <<AbbrevOf(abbrev, tier.transitions[k][1]),
              AbbrevOf(abbrev, tier.transitions[k][2])>>]]

\* lines 122-131: the tiers are rewritten in place one after the other, so the tiers
\* before the first one that raises are rewritten and the others are not
ReplaceTransitions(rules, abbrev) ==
    [k \in DOMAIN rules |->
        IF \E j \in 1..k : TierRaises(rules[j], abbrev) THEN rules[k]
        ELSE NewTrans(rules[k], abbrev)]

\* line 121: the condition under which the loop's iteration n (from 0) rewrites the
\* rule table
ReplaceOnIteration(n) == n > 0

\* the sheet LC_Totals of write_static_totals: df24 merged with df22 on LandCover
\* (how='outer' sorts the keys), fillna(0.0), the row Total Acres, the columns sorted
\* by name (the early year before the late one, 2022ed before 2024ed).  Values are
\* numerators over AcresDen
TotalsColumns == <<"early_2022ed", "early_2024ed", "late_2022ed", "late_2024ed">>
TotalsValue(df24, df22, c, col) ==
    LET df == IF col \in {"early_2024ed", "late_2024ed"} THEN df24 ELSE df22
    IN IF c \notin DOMAIN df THEN 0
       ELSE IF col \in {"early_2022ed", "early_2024ed"} THEN df[c].early
       ELSE df[c].late
AllTotals(df24, df22) ==
    LET keys == DOMAIN df24 \cup DOMAIN df22
        idx == SortLabels(keys) \o <<"Total Acres">>
    IN [index |-> idx,
        columns |-> TotalsColumns,
        cell |-> [p \in Range(idx) \X Range(TotalsColumns) |->
                    IF p[1] = "Total Acres"
                    THEN Num(SumOver([c \in keys |-> TotalsValue(df24, df22, c, p[2])], keys))
                    ELSE Num(TotalsValue(df24, df22, p[1], p[2]))]]
TotalsSheet == "LC_Totals"

\* the rule tables of config['colors']: no tier, one tier listing nothing, or one
\* tier listing one transition, written in full names or already in abbreviations
DriverRules ==
    {NoRules, <<[hex |-> "red", transitions |-> <<>>]>>}
        \cup {<<a>> : a \in {t \in Tiers : t.hex = "red"}}

\* lines 111-131: the head of the loop's iteration cfs_i: a new output_path, and the
\* rule table rewritten when line 121 says so
Substitute ==
    /\ pc = "loop"
    /\ raised = "none"
    /\ cfs_i < cfs
    /\ workbook' = NoWorkbook
    /\ total_df' = NoWorkbook
    /\ total_df24' = NoWorkbook
    /\ call' = NoCall
    /\ IF ReplaceOnIteration(cfs_i)
       THEN /\ colors' = ReplaceTransitions(colors, StdAbbrev)
            /\ raised' = IF \E k \in DOMAIN colors : TierRaises(colors[k], StdAbbrev)
                         THEN "KeyError" ELSE "none"
       ELSE UNCHANGED <<colors, raised>>
    /\ pc' = "2024ed"
    /\ UNCHANGED <<lcc_lookup, cfs, cfs_i>>

\* lines 135-143: total_df24 = createMatrices(version='2024ed', ...)
Create24 ==
    /\ pc = "2024ed"
    /\ \E rat \in DiffRats : createMatrices("2024ed", rat, Dict(StdAbbrev))
    /\ total_df24' = total_df'
    /\ pc' = "2022ed"
    /\ UNCHANGED <<cfs, cfs_i>>

\* lines 147-155: total_df22 = createMatrices(version='2022ed', ...)
Create22 ==
    /\ pc = "2022ed"
    /\ \E rat \in DiffRats : createMatrices("2022ed", rat, Dict(StdAbbrev))
    /\ pc' = "difference"
    /\ UNCHANGED <<cfs, cfs_i, total_df24>>

\* lines 159-163: difference_matrices(versions=['2024ed', '2022ed'])
DifferenceVersions ==
    /\ pc = "difference"
    /\ difference_matrices(Versions)
    /\ pc' = "totals"
    /\ UNCHANGED <<cfs, cfs_i, total_df24>>

\* lines 167-171: write_static_totals(df24=total_df24, df22=total_df22), and on to
\* the next region
write_static_totals ==
    /\ pc = "totals"
    /\ raised = "none"
    /\ workbook' = (TotalsSheet :> Sheet(AllTotals(total_df24, total_df))) @@ workbook
    /\ call' = [fn |-> "write_static_totals", version |-> "", rat |-> <<>>,
                lc_abbrev |-> None]
    /\ cfs_i' = cfs_i + 1
    /\ pc' = "loop"
    /\ UNCHANGED <<lcc_lookup, colors, total_df, raised, cfs, total_df24>>

\* SpecDriver: a run of the driver over one to MaxRegions regions
InitDriver ==
    /\ lcc_lookup = StdLookup
    /\ colors \in DriverRules
    /\ workbook = NoWorkbook
    /\ total_df = NoWorkbook
    /\ call = NoCall
    /\ raised = "none"
    /\ cfs \in 1..MaxRegions
    /\ cfs_i = 0
    /\ pc = "loop"
    /\ total_df24 = NoWorkbook

NextDriver ==
    \/ Substitute
    \/ Create24
    \/ Create22
    \/ DifferenceVersions
    \/ write_static_totals

SpecDriver == InitDriver /\ [][NextDriver]_vars

\* ------------------------------------------------------------------- claims
\* the last call was createMatrices and it wrote its sheet
LastBuilt == call.fn = "createMatrices" /\ call.version \in DOMAIN workbook
\* that sheet, the class registry of the call and its observations (the names
\* abbreviated when the call was given the abbreviation table)
M == workbook[call.version]
Registry == ClassesOf(lcc_lookup, call.lc_abbrev)
RawObs == MergeLookup(call.rat, lcc_lookup)
Obs == Abbreviate(RawObs, call.lc_abbrev)
Margins == <<"Increase", "Decrease", "Net Change">>

\* C1: in every matrix createMatrices builds, the cell (c, c) of every class c is
\* exactly 0, and the Decrease column summed over the classes, the Increase row summed
\* over the classes and the totalChange cell (row Increase, column Decrease) are equal
C1_ZeroDiagonalBalancedTotals ==
    LastBuilt =>
        LET cls == Range(Registry)
            sumDecrease == SumOver([c \in cls |-> M.cell[<<c, "Decrease">>].v], cls)
            sumIncrease == SumOver([c \in cls |-> M.cell[<<"Increase", c>>].v], cls)
        IN /\ \A c \in cls : M.cell[<<c, c>>] = Num(0)
           /\ \A c \in cls : ~M.cell[<<c, "Decrease">>].nan /\ ~M.cell[<<"Increase", c>>].nan
           /\ sumDecrease = sumIncrease
           /\ M.cell[<<"Increase", "Decrease">>] = Num(sumDecrease)

\* a matrix built from an observation of a class staying itself (which the diagonal
\* must not show) and with some changed area
C1_Witness ==
    /\ LastBuilt
    /\ \E val \in DOMAIN Obs :
          Obs[val].early = Obs[val].late /\ Obs[val].early \in Range(Registry)
    /\ M.cell[<<"Increase", "Decrease">>].v > 0

\* no observation names class c, early or late
NoTransition(c) == \A val \in DOMAIN Obs : Obs[val].early /= c /\ Obs[val].late /= c

\* C2: the class rows and the class columns of every built matrix are the class
\* registry, in its order, each class once, followed by the margins; a class with no
\* observed transition is an all-zero row and column; with the registry taken from
\* the lookup table or from the abbreviation table's values
C2_RowsAndColumnsAreRegistry ==
    LastBuilt =>
        /\ M.index = Registry \o Margins
        /\ M.columns = Registry \o <<"Decrease">>
        /\ ~HasDuplicates(M.index)
        /\ ~HasDuplicates(M.columns)
        /\ \A c \in Range(Registry) :
              NoTransition(c) =>
                 /\ \A d \in Range(M.columns) : M.cell[<<c, d>>] = Num(0)
                 /\ \A r \in Range(M.index) : M.cell[<<r, c>>] = Num(0)

\* a matrix over a registry of two abbreviations, not in sorted order, one of them
\* with no observed transition
C2_Witness ==
    /\ LastBuilt
    /\ call.lc_abbrev.given
    /\ Registry = <<"W", "F">>
    /\ \E c \in Range(Registry) : NoTransition(c)
    /\ \E c \in Range(Registry) : ~NoTransition(c)

\* the same with the registry taken from the lookup table
C2_WitnessLookup ==
    /\ LastBuilt
    /\ ~call.lc_abbrev.given
    /\ Registry = <<"Water", "Forest">>
    /\ \E val \in DOMAIN Obs : Obs[val].late = "Forest"

\* the observations of the pair (e, l)
PairRows(e, l) == {val \in DOMAIN Obs : Obs[val].early = e /\ Obs[val].late = l}
\* the sum of their acreages, rounded to the matrix's 4 decimals
PairSum(e, l) ==
    RoundHalfEven(SumOver([val \in PairRows(e, l) |-> Obs[val].Acres], PairRows(e, l)) * Scale4,
                  AcresDen)

\* C3: the cell of a pair (early, late), early /= late, that several observations
\* have holds the sum of their acreages
C3_CellHoldsSum ==
    LastBuilt =>
        \A e, l \in Range(Registry) :
            (e /= l /\ Cardinality(PairRows(e, l)) >= 2) =>
                M.cell[<<e, l>>] = Num(PairSum(e, l))

\* an observation that names a class the registry lacks, or whose raster value the
\* lookup table lacks
Unregistered(val) ==
    \/ val \notin DOMAIN lcc_lookup
    \/ Obs[val].early \notin Range(Registry) \cup {NaN}
    \/ Obs[val].late \notin Range(Registry) \cup {NaN}

\* C4: a createMatrices call whose observations reference a class, or a raster
\* value, absent from the registry ends with an error
C4_UnknownClassRaises ==
    (call.fn = "createMatrices" /\ \E val \in DOMAIN Obs : Unregistered(val))
        => raised /= "none"

\* the rows of the period's table with class c on the early side, and those counted
\* for c on the late side: c is their late name, or they have none and c is their
\* early name
EarlyRows(c) == {val \in DOMAIN RawObs : RawObs[val].early = c}
LateRows(c) ==
    {val \in DOMAIN RawObs :
        \/ RawObs[val].late = c
        \/ RawObs[val].late = NaN /\ RawObs[val].early = c}
AcresOf(rows) == SumOver([val \in rows |-> RawObs[val].Acres], rows)

\* the last call was createMatrices and it returned its totals table
LastReturned == call.fn = "createMatrices" /\ raised = "none"

\* C10: in the totals table an observation without a late class counts for its early
\* class in the early and in the late total; a class all of whose observations lack a
\* late class has the same early and late total; a class on one side only has 0 on
\* the other; a class on neither side is no row of the table
C10_NoChangeInherited ==
    LastReturned =>
        /\ DOMAIN total_df = {c \in Names : EarlyRows(c) \cup LateRows(c) /= {}}
        /\ \A c \in DOMAIN total_df :
              /\ total_df[c].early = AcresOf(EarlyRows(c))
              /\ total_df[c].late = AcresOf(LateRows(c))
              /\ (EarlyRows(c) = {} => total_df[c].early = 0)
              /\ (LateRows(c) = {} => total_df[c].late = 0)
              /\ (/\ \A val \in EarlyRows(c) : RawObs[val].late = NaN
                  /\ \A val \in DOMAIN RawObs : RawObs[val].late /= c)
                 => total_df[c].late = total_df[c].early

\* a totals table with a class whose two observations both lack a late class
C10_Witness ==
    /\ LastReturned
    /\ \E c \in DOMAIN total_df :
          /\ Cardinality(EarlyRows(c)) >= 2
          /\ \A val \in EarlyRows(c) : RawObs[val].late = NaN
          /\ \A val \in DOMAIN RawObs : RawObs[val].late /= c
          /\ total_df[c].early > 0
          /\ total_df[c].late = total_df[c].early

\* the tiers of the rule table, by position, that list the pair p
Listing(p) ==
    {k \in DOMAIN colors : \E i \in DOMAIN colors[k].transitions : colors[k].transitions[i] = p}
First(S) == CHOOSE k \in S : \A j \in S : k <= j
Last(S) == CHOOSE k \in S : \A j \in S : k >= j
\* the last call was createMatrices, and its addStyle completed
Styled == LastBuilt /\ raised = "none"

\* C5 as claimed: a cell whose pair two tiers list gets the tag of the tier that comes
\* first in the rule table's order (the higher priority)
C5_FirstTierWins ==
    Styled =>
        \A p \in DOMAIN M.fill :
            (Cardinality(Listing(p)) >= 2 /\ M.cell[p].v > 0)
                => M.fill[p] = colors[First(Listing(p))].hex

\* C5 as amended: a cell whose pair two tiers list gets the tag of the tier that comes
\* last in the rule table's order: each tier's fill overwrites the earlier one
C5_LastTierWins ==
    Styled =>
        \A p \in DOMAIN M.fill :
            (Cardinality(Listing(p)) >= 2 /\ M.cell[p].v > 0)
                => M.fill[p] = colors[Last(Listing(p))].hex

\* a styled matrix with a cell of positive acreage whose pair both tiers list
C5_Witness ==
    /\ Styled
    /\ \E p \in DOMAIN M.fill :
          /\ Listing(p) = {1, 2}
          /\ M.cell[p].v > 0
          /\ M.fill[p] = colors[2].hex

\* C6: addStyle tags the cell of a rule-listed pair, with a tier that lists it, exactly
\* when the cell's value is above zero; every other cell has no tag
C6_TaggedIffListedAndPositive ==
    Styled =>
        \A p \in DOMAIN M.fill :
            /\ M.fill[p] /= NoFill <=> (Listing(p) /= {} /\ M.cell[p].v > 0)
            /\ M.fill[p] /= NoFill => M.fill[p] \in {colors[k].hex : k \in Listing(p)}

\* a styled matrix with a listed cell of positive acreage, tagged, and a listed cell of
\* zero acreage off the diagonal, untagged
C6_Witness ==
    /\ Styled
    /\ \E p, q \in DOMAIN M.fill :
          /\ Listing(p) /= {} /\ M.cell[p].v > 0 /\ M.fill[p] /= NoFill
          /\ Listing(q) /= {} /\ q[1] /= q[2] /\ M.cell[q].v = 0 /\ M.fill[q] = NoFill

\* the matrices of the newer and of the older version, and their difference table
NewerSheet == workbook[Versions[1]]
OlderSheet == workbook[Versions[2]]
Difference == workbook[DiffSheet]
ClassList(sheet) == SubSeq(sheet.columns, 1, Len(sheet.columns) - 1)
\* the last call was difference_matrices, and both matrices were there for it
LastDifferenced ==
    /\ call.fn = "difference_matrices"
    /\ Versions[1] \in DOMAIN workbook
    /\ Versions[2] \in DOMAIN workbook
TotalChangeOfNewer == NewerSheet.cell[<<"Increase", "Decrease">>].v

\* C7: difference_matrices on two matrices whose class lists differ ends with an
\* error and writes no difference table
C7_MismatchRaises ==
    (LastDifferenced /\ ClassList(NewerSheet) /= ClassList(OlderSheet))
        => (raised /= "none" /\ DiffSheet \notin DOMAIN workbook)

\* C8: difference_matrices on a newer matrix whose totalChange is zero ends with an
\* error and writes no difference table
C8_ZeroTotalChangeRaises ==
    (LastDifferenced /\ TotalChangeOfNewer = 0)
        => (raised /= "none" /\ DiffSheet \notin DOMAIN workbook)

\* the case of C9: the difference of two matrices of the same class order, the newer
\* with a totalChange that is not zero
SameOrderDifferenced ==
    /\ LastDifferenced
    /\ raised = "none"
    /\ ClassList(NewerSheet) = ClassList(OlderSheet)
    /\ TotalChangeOfNewer /= 0
\* (A[row, col] - B[row, col]) / totalChange(A) of two numbers
Quotient(p) == Frac(NewerSheet.cell[p].v - OlderSheet.cell[p].v, TotalChangeOfNewer)
\* the two cells createMatrices leaves empty in every matrix
EmptyCells == {<<"Decrease", "Decrease">>, <<"Net Change", "Decrease">>}

\* C9 as claimed: every cell of the difference table is the number
\* (A[row, col] - B[row, col]) / totalChange(A); every cell is zero when A and B are
\* identical
C9_EveryCellIsQuotient ==
    SameOrderDifferenced =>
        /\ DOMAIN Difference.cell = DOMAIN NewerSheet.cell
        /\ \A p \in DOMAIN Difference.cell : Difference.cell[p] = Quotient(p)
        /\ NewerSheet.cell = OlderSheet.cell
              => \A p \in DOMAIN Difference.cell : Difference.cell[p] = Frac(0, 1)

\* C9 as amended: the same for every cell but the two that are empty in both
\* matrices, which are empty (NaN) in the difference table too
C9_EveryFilledCellIsQuotient ==
    SameOrderDifferenced =>
        /\ Difference.index = NewerSheet.index
        /\ Difference.columns = NewerSheet.columns
        /\ DOMAIN Difference.cell = DOMAIN NewerSheet.cell
        /\ \A p \in DOMAIN Difference.cell \ EmptyCells : Difference.cell[p] = Quotient(p)
        /\ \A p \in EmptyCells : Difference.cell[p] = NaNq
        /\ NewerSheet.cell = OlderSheet.cell
              => \A p \in DOMAIN Difference.cell \ EmptyCells : Difference.cell[p] = Frac(0, 1)

\* a difference of two matrices of the same class order with different total changes,
\* neither zero, and a cell where the newer has less than the older
C9_Witness ==
    /\ SameOrderDifferenced
    /\ OlderSheet.cell[<<"Increase", "Decrease">>].v /= 0
    /\ OlderSheet.cell[<<"Increase", "Decrease">>].v /= TotalChangeOfNewer
    /\ \E p \in DOMAIN Difference.cell :
          Difference.cell[p].kind = "num" /\ Difference.cell[p].n < 0

\* a difference of two identical matrices
C9_WitnessIdentical ==
    /\ SameOrderDifferenced
    /\ NewerSheet.cell = OlderSheet.cell

\* the built matrix is that of a single observation val: the raster attribute table
\* has the one row val, from class A = its early name to another class B = its late
\* name, and the registry is the two classes A and B
SingleObservation(val) ==
    /\ LastBuilt
    /\ DOMAIN call.rat = {val}
    /\ val \in DOMAIN Obs
    /\ Obs[val].early /= NaN /\ Obs[val].late /= NaN
    /\ Obs[val].early /= Obs[val].late
    /\ Len(Registry) = 2
    /\ Range(Registry) = {Obs[val].early, Obs[val].late}

\* the cell holds exactly sign * c / 4046.86 acres: v / Scale4 = sign * c * 100 / AcresDen
ExactAcres(x, sign, c) == ~x.nan /\ x.v * AcresDen = sign * c * 100 * Scale4
\* the cell holds sign * c / 4046.86 acres rounded to the matrix's 4 decimals
RoundedAcres(x, sign, c) == x = Num(sign * RoundHalfEven(c * 100 * Scale4, AcresDen))

\* NetChange[class] = Increase[class] - Decrease[class] for every class
NetChangeIsIncreaseLessDecrease ==
    \A c \in Range(Registry) :
        M.cell[<<"Net Change", c>>] = Sub(M.cell[<<"Increase", c>>], M.cell[<<"Decrease", c>>])

\* C11: the matrix built from a single observation (early = A, late = B, count = c),
\* A /= B, over the registry {A, B} has Decrease[A] = Increase[B] = c / 4046.86,
\* Decrease[B] = Increase[A] = 0, NetChange[A] = -c / 4046.86 and
\* NetChange[B] = +c / 4046.86; and NetChange = Increase - Decrease for every class
C11_SingleObservationExact ==
    /\ LastBuilt => NetChangeIsIncreaseLessDecrease
    /\ \A val \in DOMAIN call.rat :
          SingleObservation(val) =>
             LET A == Obs[val].early
                 B == Obs[val].late
                 c == call.rat[val]
             IN /\ ExactAcres(M.cell[<<A, "Decrease">>], 1, c)
                /\ ExactAcres(M.cell[<<"Increase", B>>], 1, c)
                /\ M.cell[<<B, "Decrease">>] = Num(0)
                /\ M.cell[<<"Increase", A>>] = Num(0)
                /\ ExactAcres(M.cell[<<"Net Change", A>>], -1, c)
                /\ ExactAcres(M.cell[<<"Net Change", B>>], 1, c)

\* what the code computes instead: the same cells hold c / 4046.86 rounded to 4
\* decimals (a single pixel, c = 1, is 0.0002 acre, not 0.000247...)
C11_SingleObservationRounded ==
    /\ LastBuilt => NetChangeIsIncreaseLessDecrease
    /\ \A val \in DOMAIN call.rat :
          SingleObservation(val) =>
             LET A == Obs[val].early
                 B == Obs[val].late
                 c == call.rat[val]
             IN /\ RoundedAcres(M.cell[<<A, "Decrease">>], 1, c)
                /\ RoundedAcres(M.cell[<<"Increase", B>>], 1, c)
                /\ M.cell[<<B, "Decrease">>] = Num(0)
                /\ M.cell[<<"Increase", A>>] = Num(0)
                /\ RoundedAcres(M.cell[<<"Net Change", A>>], -1, c)
                /\ RoundedAcres(M.cell[<<"Net Change", B>>], 1, c)

C11_Witness == \E val \in DOMAIN call.rat : SingleObservation(val) /\ call.rat[val] = MaxCount

\* the names the transitions of a rule table are written in
TierNames(tier) ==
    UNION {{tier.transitions[j][1], tier.transitions[j][2]} : j \in DOMAIN tier.transitions}
RuleNames(rules) == UNION {TierNames(rules[k]) : k \in DOMAIN rules}
\* the rule table lists transitions, in the class names config['LC_abbrev'] has as keys
WrittenInNames(rules) == RuleNames(rules) /= {} /\ RuleNames(rules) \subseteq AbbrevKeys(StdAbbrev)
\* the rule table names its transitions in the abbreviations, the labels of the matrices
Abbreviated(rules) == RuleNames(rules) \subseteq Range(AbbrevValues(StdAbbrev))
\* the driver is in the body of its loop, past the rewriting of the rule table
InRegion == pc \in {"2024ed", "2022ed", "difference", "totals"}

\* C12: the driver rewrites the rule table's class names to abbreviations on the
\* first iteration of its loop, so in every region, the first one included, the rule
\* table createMatrices gets is in abbreviations and no call fails because of it.
\* Stated for the first region, where colors is still the table as configured
C12_FirstRegionRulesAbbreviated ==
    (InRegion /\ cfs_i = 0 /\ WrittenInNames(colors)) =>
        (Abbreviated(colors) /\ raised = "none")

\* the rewriting of an iteration after the first finds every name among the keys of
\* config['LC_abbrev'] (not so for a table that is in abbreviations by then: line 128
\* raises KeyError)
C12_RewrittenAgain == raised /= "KeyError"

====
